---- MODULE Spec2Model ----
(***************************************************************************)
(* chapterize.py: download or take a media file, obtain chapters either    *)
(* from an asynchronous transcription job (resumable through a token file) *)
(* or from source/container metadata, write FFMETADATA, mux.               *)
(*                                                                         *)
(* One process runs at a time (invocations follow one another); the disk   *)
(* and the transcription service outlive an invocation.  An invocation can *)
(* be interrupted (KeyboardInterrupt) between any two of its steps.        *)
(***************************************************************************)
EXTENDS Integers, Sequences, FiniteSets, TLC

\* ------------------------------------------------------------------ bounds
\* invocations of the script in one behaviour
MaxRuns == 2
\* job ids the transcription service can issue in one behaviour
MaxJobs == 2

\* ------------------------------------------------------------------ paths
\* A path is [dir, stem, tail]: os.path.join(dir, stem + tail_1 + tail_2 ..).
OutputDir == "output"

Videos == { [dir |-> "in", stem |-> "talk", tail |-> <<".mp4">>] }

\* --input names a file that does not exist
MissingVideo == [dir |-> "in", stem |-> "gone", tail |-> <<".mp4">>]

\* None where a path is expected (no --input, no metadata file)
NoPath == [dir |-> "", stem |-> "", tail |-> <<>>]

\* os.path.splitext(os.path.basename(video_file))[0]
base_name(video_file) == video_file.stem

\* os.path.join(output_dir, f"{base_name}-transcript-id.txt")
transcript_id_file(video_file, output_dir) ==
    [dir |-> output_dir, stem |-> base_name(video_file), tail |-> <<"-transcript-id.txt">>]

\* os.path.join(output_dir, f"{base_name}-audio.m4a")
audio_file_path(video_file, output_dir) ==
    [dir |-> output_dir, stem |-> base_name(video_file), tail |-> <<"-audio.m4a">>]

\* os.path.join(output_dir, "FFMETADATA"): one fixed name for every input
ffmetadata_path(output_dir) ==
    [dir |-> output_dir, stem |-> "FFMETADATA", tail |-> <<>>]

\* os.path.join(output_dir, f"{base} - with chapters{ext}")
default_output_video(input_video, output_dir) ==
    [dir |-> output_dir, stem |-> base_name(input_video),
     tail |-> <<" - with chapters">> \o input_video.tail]

\* the token and audio files of every input
WorkPaths ==
    { transcript_id_file(v, OutputDir) : v \in Videos }
        \cup { audio_file_path(v, OutputDir) : v \in Videos }

\* ------------------------------------------------------------ file contents
\* Content of a token or audio file, an integer:
\*   0 no such file;
\*   token file: a job id (> 0), or Garbage (text that is no job id);
\*   audio file: n > 0 the artifact written by the n-th ffmpeg extraction,
\*               -n what the n-th extraction left behind when it failed.
NoFile == 0
Garbage == -1

\* (A token's content stands for the text f.read().strip() returns.)

\* ------------------------------------------------------- service and chapters
JobIds == 1..MaxJobs

TerminalStatus == {"completed", "error"}

\* transcript.chapters of a completed job: start/end in milliseconds and a
\* headline; what the service returns for job j is fixed per job.
ServiceChapters(j) ==
    [i \in 1..j |-> [start |-> (i - 1) * 1000 * j, end |-> i * 1000 * j,
                     headline |-> "Headline"]]

\* a chapter dict without the "title" key
NoTitle == "<no title key>"

\* Chapter lists of the source platform (yt-dlp JSON) or the container (ffprobe
\* JSON): start_time and end_time are seconds, written here in microseconds
\* (1.5 s = 1500000); every time is a whole number of milliseconds.
SourceChapterLists ==
    { <<>>,
      << [start_time |-> 1500000, end_time |-> 4250000, title |-> "Intro"] >>,
      << [start_time |-> 0, end_time |-> 1001000, title |-> NoTitle],
         [start_time |-> 1001000, end_time |-> 2500000, title |-> "Outro"] >>,
      << [start_time |-> 0, end_time |-> 30000000, title |-> "A"],
         [start_time |-> 30000000, end_time |-> 90000000, title |-> "B"],
         [start_time |-> 90000000, end_time |-> 120000000, title |-> "C"] >> }

\* extract_chapters_from_ffprobe: float(start_time), float(end_time) and
\* tags.get("title", "Chapter") for every chapter ffprobe reports
ffprobe_chapters(raw) ==
    [i \in 1..Len(raw) |->
        [start_time |-> raw[i].start_time, end_time |-> raw[i].end_time,
         title |-> IF raw[i].title = NoTitle THEN "Chapter" ELSE raw[i].title]]

\* The times of SourceChapterLists for which the double product seconds * 1000
\* lies just below the whole number: 1.001 * 1000 is 1000.9999999999999.
\* (0, 1.5, 2.5, 4.25, 30, 90 and 120 give the whole number exactly.)
ProductBelowWhole == { 1001000 }

\* int(seconds * 1000) on a Python float: the double product, truncated
ToMs(microseconds) ==
    IF microseconds \in ProductBelowWhole
    THEN microseconds \div 1000 - 1
    ELSE microseconds \div 1000

\* chapter.get("title", "Chapter")
get_title(chapter) == IF chapter.title = NoTitle THEN "Chapter" ELSE chapter.title

\* A line of the FFMETADATA file: fixed text, "KEY=" followed by an integer, or
\* "KEY=" followed by a string; "" is the empty line.
TextLine(text) == [text |-> text, int |-> 0, str |-> ""]

IntLine(key, n) == [text |-> key, int |-> n, str |-> ""]

StrLine(key, v) == [text |-> key, int |-> 0, str |-> v]

\* faulty variant: the blank line after the title is not written
Block_unterminated(start_ms, end_ms, title) ==
    << TextLine("[CHAPTER]"), TextLine("TIMEBASE=1/1000"), IntLine("START=", start_ms),
       IntLine("END=", end_ms), StrLine("title=", title) >>

\* the six f.write calls for one chapter
Block(start_ms, end_ms, title) ==
    << TextLine("[CHAPTER]"), TextLine("TIMEBASE=1/1000"), IntLine("START=", start_ms),
       IntLine("END=", end_ms), StrLine("title=", title), TextLine("") >>

\* chapters_to_ffmetadata: the lines written for a chapter list, the header
\* first and then the chapters in the order of the loop
RECURSIVE chapters_to_ffmetadata(_)
chapters_to_ffmetadata(chapters) ==
    IF chapters = <<>>
    THEN << TextLine(";FFMETADATA1") >>
    ELSE chapters_to_ffmetadata(SubSeq(chapters, 1, Len(chapters) - 1))
            \o Block(ToMs(chapters[Len(chapters)].start_time),
                     ToMs(chapters[Len(chapters)].end_time),
                     get_title(chapters[Len(chapters)]))

\* the lines transcribe_and_generate_chapters writes for transcript.chapters
RECURSIVE TranscriptBlocks(_)
TranscriptBlocks(chapters) ==
    IF chapters = <<>>
    THEN << TextLine(";FFMETADATA1") >>
    ELSE TranscriptBlocks(SubSeq(chapters, 1, Len(chapters) - 1))
            \o Block(chapters[Len(chapters)].start, chapters[Len(chapters)].end,
                     chapters[Len(chapters)].headline)

\* ------------------------------------------------------------------- state
VARIABLES
    files,          \* disk: content of every token and audio file (WorkPaths)
    metadata,       \* disk: the FFMETADATA file of the output directory, its lines
                    \* and the invocation that wrote it (0: before the first)
    jobs,           \* service: status and submitter of every job id, and how many
                    \* invocations the job's error status has ended
    run,            \* number of the current (or last) invocation
    pc,             \* where the invocation is; "exited" between invocations
    args,           \* parsed command line of the invocation
    video_file,     \* main: the media file worked on
    transcript_id,  \* transcribe...: id read from the token file, 0 for None
    transcript,     \* transcribe...: the Transcript object held, id 0 for none
    audio_file,     \* transcribe...: the path extract_audio returned, NoPath before
    chapters,       \* extract_chapters_from_source: the chapter list, <<>> for None
    metadata_file,  \* main: the returned metadata path, NoPath for None
    output_video,   \* main: the final output path
    exit_code,      \* exit status of the invocation, -1 while it runs
    events,         \* what the invocation has done so far, in order
    ended,          \* how and at which pc the invocation ended, NotEnded while it runs
    resume_id,      \* the content the invocation read from the token file, 0 if none
    resume_status,  \* the remote status of that job when the token was read
    fetch_result,   \* outcome of Transcript.get_by_id: "none", "failed" or a status
    prev_end,       \* last_end of the input when the token file was looked at
    last_end,       \* per input: how the last transcription attempt ended
    retired,        \* <<token path, id>>: ids a token file held and holds no more
    mux_calls       \* the calls of add_chapters_to_video the invocation has made

vars == << files, metadata, jobs, run, pc, args, video_file, transcript_id,
           transcript, audio_file, chapters, metadata_file, output_video, exit_code,
           events, ended, resume_id, resume_status, fetch_result, prev_end, last_end,
           retired, mux_calls >>

disk == << files, metadata >>
locals == << video_file, transcript_id, transcript, audio_file, chapters,
             metadata_file, output_video >>
notes == << resume_id, resume_status, fetch_result, prev_end >>

NoTranscript == [id |-> 0, status |-> "none"]

NoJob == [status |-> "none", owner |-> 0, aborted |-> 0]

NoEnd == [how |-> "none", at |-> "", job |-> 0]

NotEnded == [how |-> "", at |-> ""]

\* the command lines an invocation can be given
ArgSets ==
    [url : BOOLEAN, input : Videos \cup {MissingVideo, NoPath},
     skip_ai_chapters : BOOLEAN, api_key : BOOLEAN]

\* FFMETADATA left in the output directory by an earlier use of the tool
StaleMetadata ==
    [exists |-> TRUE, writer |-> 0,
     lines |-> << TextLine(";FFMETADATA1") >> \o Block(0, 1, "Old")]

NoMetadata == [exists |-> FALSE, writer |-> 0, lines |-> <<>>]

\* pcs inside transcribe_and_generate_chapters, after the token file was looked at
TranscribePcs ==
    { "t_get", "t_poll", "t_extract", "t_submit", "t_save", "t_wait", "t_status",
      "t_write", "t_rm_token", "t_rm_audio" }

Init ==
    /\ files \in [WorkPaths -> {NoFile, Garbage}]
    /\ \A v \in Videos : files[audio_file_path(v, OutputDir)] = NoFile
    /\ metadata \in {NoMetadata, StaleMetadata}
    /\ jobs = [j \in JobIds |-> NoJob]
    /\ run = 0
    /\ pc = "exited"
    /\ args = [url |-> FALSE, input |-> NoPath, skip_ai_chapters |-> FALSE,
               api_key |-> FALSE]
    /\ video_file = NoPath
    /\ transcript_id = 0
    /\ transcript = NoTranscript
    /\ audio_file = NoPath
    /\ chapters = <<>>
    /\ metadata_file = NoPath
    /\ output_video = NoPath
    /\ exit_code = -1
    /\ events = <<>>
    /\ ended = NotEnded
    /\ resume_id = 0
    /\ resume_status = "none"
    /\ fetch_result = "none"
    /\ prev_end = NoEnd
    /\ last_end = [v \in Videos |-> NoEnd]
    /\ retired = {}
    /\ mux_calls = <<>>

\* ----------------------------------------------------------------- helpers
Did(e) == \E i \in 1..Len(events) : events[i] = e

Count(e) == Cardinality({ i \in 1..Len(events) : events[i] = e })

\* position of the first e in events, 0 if there is none
First(e) == IF Did(e) THEN CHOOSE i \in 1..Len(events) :
                               events[i] = e /\ \A k \in 1..(i - 1) : events[k] # e
            ELSE 0

\* how a transcription attempt that ends at pc is remembered
EndNote(how) ==
    IF pc \in TranscribePcs
    THEN [last_end EXCEPT ![video_file] = [how |-> how, at |-> pc, job |-> transcript.id]]
    ELSE last_end

\* sys.exit(code) / parser.error at the current pc
Exit(code, how) ==
    /\ pc' = "exited"
    /\ exit_code' = code
    /\ ended' = [how |-> how, at |-> pc]
    /\ last_end' = EndNote(how)

\* faulty variant: the error is printed and the function returns to main
Fatal_returning(how) ==
    /\ pc' = "mux"
    /\ exit_code' = exit_code
    /\ ended' = [how |-> how, at |-> pc]
    /\ last_end' = last_end

\* print the diagnostic, sys.exit(1)
Fatal(how) == Exit(1, how)

\* the invocation goes on
Continue == UNCHANGED << exit_code, ended, last_end >>

\* ------------------------------------------------------------------ main
\* A new invocation of the script with command line a (main, parse_args).
Invoke(a) ==
    /\ pc = "exited"
    /\ run < MaxRuns
    /\ run' = run + 1
    /\ args' = a
    /\ pc' = "api_key"
    /\ exit_code' = -1
    /\ events' = <<>>
    /\ video_file' = NoPath
    /\ transcript_id' = 0
    /\ transcript' = NoTranscript
    /\ audio_file' = NoPath
    /\ chapters' = <<>>
    /\ metadata_file' = NoPath
    /\ output_video' = NoPath
    /\ ended' = NotEnded
    /\ resume_id' = 0
    /\ resume_status' = "none"
    /\ fetch_result' = "none"
    /\ prev_end' = NoEnd
    /\ mux_calls' = <<>>
    /\ UNCHANGED << disk, jobs, last_end, retired >>

\* faulty variant: the run goes on without a key
api_key_missing_unchecked(a) == FALSE

\* args.api_key after the lookup in argument, environment and api-key.txt is
\* falsy and the AI path is wanted
api_key_missing(a) == ~a.skip_ai_chapters /\ ~a.api_key

\* neither --url nor --input
source_missing(a) == ~a.url /\ a.input = NoPath

\* The API key is resolved; without one the AI path ends in parser.error.
ResolveApiKey ==
    /\ pc = "api_key"
    /\ IF api_key_missing(args)
       THEN Exit(2, "usage")
       ELSE pc' = "require_source" /\ Continue
    /\ UNCHANGED << disk, jobs, run, args, locals, events, notes, retired, mux_calls >>

\* Either --url or --input must be given.
RequireSource ==
    /\ pc = "require_source"
    /\ IF source_missing(args)
       THEN Exit(2, "usage")
       ELSE pc' = "workdir" /\ Continue
    /\ UNCHANGED << disk, jobs, run, args, locals, events, notes, retired, mux_calls >>

\* os.chdir(args.work_dir); os.makedirs(args.output_dir, exist_ok=True)
EnterWorkDir ==
    /\ pc = "workdir"
    /\ events' = events \o << "chdir", "makedirs" >>
    /\ pc' = "acquire"
    /\ Continue
    /\ UNCHANGED << disk, jobs, run, args, locals, notes, retired, mux_calls >>

\* where main goes once it has the media file
chapter_step(a) == IF a.skip_ai_chapters THEN "source" ELSE "transcribe"

\* download_video: yt-dlp leaves a media file, or exits non-zero (or leaves no
\* file the function can find), which is fatal.
DownloadVideo ==
    /\ pc = "acquire"
    /\ args.url
    /\ events' = Append(events, "download")
    /\ \/ \E v \in Videos :
            /\ video_file' = v
            /\ pc' = chapter_step(args)
            /\ Continue
       \/ /\ Fatal("download_failed")
          /\ UNCHANGED video_file
    /\ UNCHANGED << disk, jobs, run, args, transcript_id, transcript, audio_file,
                    chapters, metadata_file, output_video, notes, retired, mux_calls >>

\* video_file = args.input; a missing file is fatal.
UseInput ==
    /\ pc = "acquire"
    /\ ~args.url
    /\ video_file' = args.input
    /\ IF args.input = MissingVideo
       THEN Fatal("input_missing")
       ELSE pc' = chapter_step(args) /\ Continue
    /\ UNCHANGED << disk, jobs, run, args, transcript_id, transcript, audio_file,
                    chapters, metadata_file, output_video, events, notes, retired, mux_calls >>

\* ------------------------------------------- extract_chapters_from_source
\* faulty variant: whatever the source platform returned is taken as chapters
no_chapters_never(chs) == FALSE

\* "if not chapters": None and the empty list alike
no_chapters(chs) == chs = <<>>

\* extract_chapters_from_yt_dlp_json when a URL is given; main always passes a
\* video file, so ffprobe follows whenever this yields nothing.
SourceYtDlp ==
    /\ pc = "source"
    /\ IF args.url
       THEN /\ \E r \in SourceChapterLists : chapters' = r
            /\ events' = Append(events, "yt_dlp_json")
       ELSE /\ chapters' = <<>>
            /\ UNCHANGED events
    /\ pc' = IF no_chapters(chapters') THEN "s_ffprobe" ELSE "s_write"
    /\ Continue
    /\ UNCHANGED << disk, jobs, run, args, video_file, transcript_id, transcript,
                    audio_file, metadata_file, output_video, notes, retired, mux_calls >>

\* extract_chapters_from_ffprobe; with no chapters from either, the warning is
\* printed and None returned.
SourceFfprobe ==
    /\ pc = "s_ffprobe"
    /\ \E r \in SourceChapterLists : chapters' = ffprobe_chapters(r)
    /\ IF no_chapters(chapters')
       THEN /\ events' = events \o << "ffprobe", "warn_no_chapters" >>
            /\ pc' = "mux"
       ELSE /\ events' = Append(events, "ffprobe")
            /\ pc' = "s_write"
    /\ Continue
    /\ UNCHANGED << disk, jobs, run, args, video_file, transcript_id, transcript,
                    audio_file, metadata_file, output_video, notes, retired, mux_calls >>

\* chapters_to_ffmetadata(chapters, output_dir) and its return to main
SourceWrite ==
    /\ pc = "s_write"
    /\ metadata' = [exists |-> TRUE, writer |-> run,
                    lines |-> chapters_to_ffmetadata(chapters)]
    /\ metadata_file' = ffmetadata_path(OutputDir)
    /\ events' = Append(events, "write_metadata")
    /\ pc' = "mux"
    /\ Continue
    /\ UNCHANGED << files, jobs, run, args, video_file, transcript_id, transcript,
                    audio_file, chapters, output_video, notes, retired, mux_calls >>

\* ---------------------------------------- transcribe_and_generate_chapters
token_path == transcript_id_file(video_file, OutputDir)

audio_path == audio_file_path(video_file, OutputDir)

\* os.path.exists on a token or audio file
exists(content) == content # NoFile

\* the remote status of the job a token names, "unknown" if it names none
RemoteStatus(content) ==
    IF content \in JobIds /\ jobs[content].status # "none"
    THEN jobs[content].status
    ELSE "unknown"

\* faulty variant: a new transcription is started whatever the token said
after_resume_always_new(tid) == "t_extract"

\* line 249: a new transcription is started exactly when transcript_id is None
after_resume(tid) == IF tid = 0 THEN "t_extract" ELSE "t_status"

\* The token file is looked for and, if there, read.
ReadToken ==
    /\ pc = "transcribe"
    /\ prev_end' = last_end[video_file]
    /\ IF exists(files[token_path])
       THEN /\ transcript_id' = files[token_path]
            /\ resume_id' = files[token_path]
            /\ resume_status' = RemoteStatus(files[token_path])
            /\ pc' = "t_get"
       ELSE /\ transcript_id' = 0
            /\ resume_id' = 0
            /\ resume_status' = "none"
            /\ pc' = after_resume(0)
    /\ Continue
    /\ UNCHANGED << disk, jobs, run, args, video_file, transcript, audio_file,
                    chapters, metadata_file, output_video, events, fetch_result,
                    retired, mux_calls >>

\* faulty variant: the fetched job is taken as it is, whatever its status
needs_wait_never(status) == FALSE

\* lines 233-242: a fetched job that is neither completed nor errored is waited for
needs_wait(status) == status \notin {"completed", "error"}

\* faulty variant: a completed job is restarted like an errored one
resume_transcript_id_restarting(id, status) ==
    IF status \in {"completed", "error"} THEN 0 ELSE id

\* faulty variant: the errored job's id is kept
resume_transcript_id_keeping(id, status) == id

\* lines 235-238: transcript_id becomes None only for an errored job
resume_transcript_id(id, status) == IF status = "error" THEN 0 ELSE id

\* aai.Transcript.get_by_id(transcript_id) returns the job.
GetById ==
    /\ pc = "t_get"
    /\ RemoteStatus(transcript_id) # "unknown"
    /\ transcript' = [id |-> transcript_id, status |-> jobs[transcript_id].status]
    /\ fetch_result' = jobs[transcript_id].status
    /\ transcript_id' = resume_transcript_id(transcript_id, jobs[transcript_id].status)
    /\ pc' = IF needs_wait(jobs[transcript_id].status)
             THEN "t_poll"
             ELSE after_resume(transcript_id')
    /\ events' = Append(events, "get_by_id")
    /\ Continue
    /\ UNCHANGED << disk, jobs, run, args, video_file, audio_file, chapters,
                    metadata_file, output_video, resume_id, resume_status, prev_end,
                    retired, mux_calls >>

\* faulty variant: the id that could not be fetched is kept
on_fetch_exception_keeping(id) == id

\* lines 243-246: transcript_id after get_by_id raised
on_fetch_exception(id) == 0

\* get_by_id raises (service unreachable, or the token is no id of a job): the
\* exception is caught and a new transcription started.
GetByIdFails ==
    /\ pc = "t_get"
    /\ fetch_result' = "failed"
    /\ transcript_id' = on_fetch_exception(transcript_id)
    /\ pc' = after_resume(transcript_id')
    /\ events' = Append(events, "get_by_id")
    /\ Continue
    /\ UNCHANGED << disk, jobs, run, args, video_file, transcript, audio_file,
                    chapters, metadata_file, output_video, resume_id, resume_status,
                    prev_end, retired, mux_calls >>

\* transcript.wait_for_completion() on the job found through the token file;
\* the call is taken to return, and only once the job is terminal.
PollExisting ==
    /\ pc = "t_poll"
    /\ jobs[transcript.id].status \in TerminalStatus
    /\ transcript' = [transcript EXCEPT !.status = jobs[transcript.id].status]
    /\ pc' = after_resume(transcript_id)
    /\ Continue
    /\ UNCHANGED << disk, jobs, run, args, video_file, transcript_id, audio_file,
                    chapters, metadata_file, output_video, events, notes, retired, mux_calls >>

\* faulty variant: the artifact is extracted again even when it is there
extract_audio_skips_never(content) == FALSE

\* extract_audio line 187: the artifact is there already
extract_audio_skips(content) == exists(content)

\* what a failed ffmpeg run can leave at the artifact path: nothing, or an
\* unfinished file
FailedExtractionLeaves(n) == {NoFile, -n}

\* extract_audio(video_file, output_dir): returns the artifact path; ffmpeg
\* runs only when the artifact is missing, and its failure is fatal.
ExtractAudio ==
    /\ pc = "t_extract"
    /\ IF extract_audio_skips(files[audio_path])
       THEN /\ audio_file' = audio_path
            /\ events' = Append(events, "extract_audio")
            /\ pc' = "t_submit"
            /\ Continue
            /\ UNCHANGED files
       ELSE \/ /\ files' = [files EXCEPT ![audio_path] = run]
               /\ audio_file' = audio_path
               /\ events' = events \o << "ffmpeg", "extract_audio" >>
               /\ pc' = "t_submit"
               /\ Continue
            \/ /\ \E c \in FailedExtractionLeaves(run) :
                     files' = [files EXCEPT ![audio_path] = c]
               /\ events' = Append(events, "ffmpeg")
               /\ Fatal("extract_failed")
               /\ UNCHANGED audio_file
    /\ UNCHANGED << metadata, jobs, run, args, video_file, transcript_id, transcript,
                    chapters, metadata_file, output_video, notes, retired, mux_calls >>

\* the id the service gives the next job
NextJobId == CHOOSE j \in JobIds :
                /\ jobs[j].status = "none"
                /\ \A k \in JobIds : jobs[k].status = "none" => j <= k

\* transcriber.submit(audio_file, config): the job exists once this returns.
Submit ==
    /\ pc = "t_submit"
    /\ \E j \in JobIds : jobs[j].status = "none"
    /\ jobs' = [jobs EXCEPT ![NextJobId] = [status |-> "queued", owner |-> run, aborted |-> 0]]
    /\ transcript' = [id |-> NextJobId, status |-> "queued"]
    /\ events' = Append(events, "submit")
    /\ pc' = "t_save"
    /\ Continue
    /\ UNCHANGED << disk, run, args, video_file, transcript_id, audio_file, chapters,
                    metadata_file, output_video, notes, retired, mux_calls >>

\* faulty variant: the id read at entry is written instead of the new job's
saved_token_stale(id) == IF resume_id # 0 THEN resume_id ELSE Garbage

\* the token file after f.write(transcript.id)
saved_token(id) == id

\* what a token file that changes from content old to content new holds no more
Retire(path, old, new) ==
    IF old \in JobIds /\ old # new THEN retired \cup { << path, old >> } ELSE retired

\* with open(transcript_id_file, "w") as f: f.write(transcript.id)
SaveToken ==
    /\ pc = "t_save"
    /\ files' = [files EXCEPT ![token_path] = saved_token(transcript.id)]
    /\ retired' = Retire(token_path, files[token_path], files'[token_path])
    /\ events' = Append(events, "write_token")
    /\ pc' = "t_wait"
    /\ Continue
    /\ UNCHANGED << metadata, jobs, run, args, locals, notes, mux_calls >>

\* transcript.wait_for_completion() on the job just submitted
WaitForCompletion ==
    /\ pc = "t_wait"
    /\ jobs[transcript.id].status \in TerminalStatus
    /\ transcript' = [transcript EXCEPT !.status = jobs[transcript.id].status]
    /\ pc' = "t_status"
    /\ Continue
    /\ UNCHANGED << disk, jobs, run, args, video_file, transcript_id, audio_file,
                    chapters, metadata_file, output_video, events, notes, retired, mux_calls >>

\* faulty variant: the abort on a job's status deletes the token file
files_on_abort_deleting(f, token) == [f EXCEPT ![token] = NoFile]

\* the token and audio files as the abort on a job's status leaves them
files_on_abort(f, token) == f

\* lines 276-282: an errored job, or any status but completed, is fatal.
CheckStatus ==
    /\ pc = "t_status"
    /\ IF transcript.status = "error"
       THEN /\ Fatal("job_error")
            /\ files' = files_on_abort(files, token_path)
            /\ jobs' = [jobs EXCEPT ![transcript.id].aborted = @ + 1]
       ELSE IF transcript.status # "completed"
       THEN /\ Fatal("not_completed")
            /\ files' = files_on_abort(files, token_path)
            /\ UNCHANGED jobs
       ELSE /\ pc' = "t_write"
            /\ Continue
            /\ UNCHANGED << files, jobs >>
    /\ retired' = Retire(token_path, files[token_path], files'[token_path])
    /\ UNCHANGED << metadata, run, args, locals, events, notes, mux_calls >>

\* lines 287-302: FFMETADATA is written from transcript.chapters.
WriteMetadata ==
    /\ pc = "t_write"
    /\ metadata' = [exists |-> TRUE, writer |-> run,
                    lines |-> TranscriptBlocks(ServiceChapters(transcript.id))]
    /\ events' = Append(events, "write_metadata")
    /\ pc' = "t_rm_token"
    /\ Continue
    /\ UNCHANGED << files, jobs, run, args, locals, notes, retired, mux_calls >>

\* faulty variant: the file is left where it is
removed_nothing(content) == content

\* a file's content after "if os.path.exists(p): os.remove(p)"
removed(content) == NoFile

\* lines 305-307: the token file is removed.
RemoveToken ==
    /\ pc = "t_rm_token"
    /\ files' = [files EXCEPT ![token_path] = removed(files[token_path])]
    /\ retired' = Retire(token_path, files[token_path], files'[token_path])
    /\ events' = IF exists(files[token_path]) THEN Append(events, "rm_token") ELSE events
    /\ pc' = "t_rm_audio"
    /\ Continue
    /\ UNCHANGED << metadata, jobs, run, args, locals, notes, mux_calls >>

\* lines 310-315: the audio artifact is removed and the metadata path returned.
RemoveAudio ==
    /\ pc = "t_rm_audio"
    /\ files' = [files EXCEPT ![audio_path] = removed(files[audio_path])]
    /\ events' = IF exists(files[audio_path]) THEN Append(events, "rm_audio") ELSE events
    /\ metadata_file' = ffmetadata_path(OutputDir)
    /\ pc' = "mux"
    /\ last_end' = EndNote("success")
    /\ UNCHANGED << metadata, jobs, run, args, video_file, transcript_id, transcript,
                    audio_file, chapters, output_video, exit_code, ended, notes,
                    retired, mux_calls >>

\* ----------------------------------------------------- main, last step
\* faulty variant: the muxer is called whether or not there is a metadata file
has_metadata_always(mf) == TRUE

\* line 456: "if metadata_file"
has_metadata(mf) == mf # NoPath

\* faulty variant: the two inputs change places
mux_inputs_swapped(input_video, mf) == << mf, input_video >>

\* the "-i" arguments of the ffmpeg command, in order; "-map_metadata 1" takes
\* the metadata of the second
mux_inputs(input_video, mf) == << input_video, mf >>

\* One call of add_chapters_to_video: its inputs, and (for the record) the
\* invocation that wrote the FFMETADATA file as it is on disk at the call, -1
\* if there is no such file.
MuxCall(input_video, mf) ==
    [inputs |-> mux_inputs(input_video, mf),
     written_by |-> IF metadata.exists THEN metadata.writer ELSE -1]

\* add_chapters_to_video when there is a metadata file (ffmpeg exiting
\* non-zero is fatal), else the input is passed through; then "All done".
Mux ==
    /\ pc = "mux"
    /\ IF has_metadata(metadata_file)
       THEN /\ events' = Append(events, "mux")
            /\ mux_calls' = Append(mux_calls, MuxCall(video_file, metadata_file))
            /\ \/ /\ output_video' = default_output_video(video_file, OutputDir)
                  /\ Exit(0, "done")
               \/ /\ Fatal("mux_failed")
                  /\ UNCHANGED output_video
       ELSE /\ events' = Append(events, "skip_embedding")
            /\ output_video' = video_file
            /\ Exit(0, "done")
            /\ UNCHANGED mux_calls
    /\ UNCHANGED << disk, jobs, run, args, video_file, transcript_id, transcript,
                    audio_file, chapters, metadata_file, notes, retired >>

\* ------------------------------------------------------------ environment
\* KeyboardInterrupt: the invocation ends where it stands; nothing is undone.
Interrupt ==
    /\ pc # "exited"
    /\ Exit(130, "interrupted")
    /\ UNCHANGED << disk, jobs, run, args, locals, events, notes, retired, mux_calls >>

\* the statuses a job can move to
NextStatus(status) ==
    IF status = "queued" THEN {"processing", "error"}
    ELSE IF status = "processing" THEN {"completed", "error"}
    ELSE {}

\* The service works on a job.
ServiceProgress(j) ==
    /\ \E st \in NextStatus(jobs[j].status) :
            jobs' = [jobs EXCEPT ![j].status = st]
    /\ UNCHANGED << disk, run, pc, args, locals, exit_code, events, ended, notes,
                    last_end, retired, mux_calls >>

Next ==
    \/ \E a \in ArgSets : Invoke(a)
    \/ ResolveApiKey
    \/ RequireSource
    \/ EnterWorkDir
    \/ DownloadVideo
    \/ UseInput
    \/ SourceYtDlp
    \/ SourceFfprobe
    \/ SourceWrite
    \/ ReadToken
    \/ GetById
    \/ GetByIdFails
    \/ PollExisting
    \/ ExtractAudio
    \/ Submit
    \/ SaveToken
    \/ WaitForCompletion
    \/ CheckStatus
    \/ WriteMetadata
    \/ RemoveToken
    \/ RemoveAudio
    \/ Mux
    \/ Interrupt
    \/ \E j \in JobIds : ServiceProgress(j)

Spec == Init /\ [][Next]_vars

\* ================================================================== claims

\* the invocation ended because the job it waited for reached error status
EndedOnJobError == pc = "exited" /\ ended.how = "job_error"

\* C1 (as stated): when the run ends because the transcription job reached
\* error status, the exit is non-zero and the token file no longer exists.
C1_TokenDeletedOnJobError ==
    EndedOnJobError => exit_code # 0 /\ ~exists(files[token_path])

\* C1 (amended): when the run ends because the transcription job reached error
\* status, the exit is non-zero and the token file is still on disk, holding
\* the id of the errored job.
C1_TokenKeptOnJobError ==
    EndedOnJobError =>
        /\ exit_code = 1
        /\ transcript.status = "error"
        /\ jobs[transcript.id].status = "error"
        /\ exists(files[token_path])
        /\ files[token_path] = transcript.id

\* a run that polled the job of a token on resume and ended on its error
C1_Witness == EndedOnJobError /\ fetch_result = "processing" /\ ~Did("submit")

\* where the invocation is, or was when it ended
Where == IF pc = "exited" THEN ended.at ELSE pc

\* pcs of transcribe_and_generate_chapters (and of main after it) that follow
\* the return of transcriber.submit on the fresh path
AfterSubmitPcs ==
    { "t_save", "t_wait", "t_status", "t_write", "t_rm_token", "t_rm_audio", "mux" }

\* the event that follows e in events is always one of next
FollowedBy(e, next) ==
    \A i \in 1..(Len(events) - 1) : events[i] = e => events[i + 1] \in next

\* the invocation found a token naming a job that was remotely completed
StartedCompleted == resume_status = "completed"

\* the invocation found a token naming a job that was remotely in error
StartedErrored == resume_status = "error"

\* C2 (as stated): an invocation that starts with a token whose job is remotely
\* completed makes no audio extraction and no submission.
C2_NoResubmitWhenCompleted ==
    StartedCompleted =>
        ~Did("extract_audio") /\ ~Did("ffmpeg") /\ ~Did("submit")

\* C2 (amended): an invocation that starts with a token whose job is remotely
\* completed, and whose status fetch does not fail, makes no audio extraction
\* and no submission; after the fetch it goes directly to writing the chapter
\* metadata from that job's chapters.
C2_NoResubmitWhenFetchedCompleted ==
    (StartedCompleted /\ fetch_result # "failed") =>
        /\ ~Did("extract_audio") /\ ~Did("ffmpeg") /\ ~Did("submit")
        /\ Where \notin {"t_extract", "t_submit", "t_save", "t_wait", "t_poll"}
        /\ fetch_result # "none" =>
              /\ fetch_result = "completed"
              /\ transcript.id = resume_id
        /\ FollowedBy("get_by_id", {"write_metadata"})
        /\ Did("write_metadata") =>
              metadata = [exists |-> TRUE, writer |-> run,
                          lines |-> TranscriptBlocks(ServiceChapters(resume_id))]

\* a resumed run that wrote the metadata of the completed job it found
C2_Witness ==
    StartedCompleted /\ fetch_result = "completed" /\ Did("write_metadata")

\* C3 (as stated): an invocation that starts with a token whose job is remotely
\* in error makes exactly one fresh submission, and once the submission has
\* returned the token file holds the new job's id, not the errored job's.
C3_TokenNewOnceSubmitted ==
    (StartedErrored /\ Did("submit")) =>
        /\ Count("submit") = 1
        /\ files[token_path] # resume_id
        /\ files[token_path] = transcript.id \/ Did("rm_token")

\* C3 (amended): an invocation that starts with a token whose job is remotely
\* in error drops the id it read and makes at most one fresh submission,
\* exactly one once it is past the submit; it never reports on the errored
\* job; once the token write that follows the submission is done, the token
\* file holds the new job's id (until the success cleanup removes it), and no
\* token file ever again holds an id it held before.
C3_FreshSubmissionAfterError ==
    /\ StartedErrored =>
          /\ Count("submit") <= 1
          /\ fetch_result # "none" => transcript_id = 0
          /\ Where # "t_poll"
          /\ Where \in AfterSubmitPcs =>
                /\ Count("submit") = 1
                /\ transcript.id # resume_id
                /\ jobs[transcript.id].owner = run
          /\ Did("write_token") =>
                /\ files[token_path] # resume_id
                /\ << token_path, resume_id >> \in retired
                /\ files[token_path] = transcript.id \/ Did("rm_token")
    /\ \A r \in retired : files[r[1]] # r[2]

\* a run that found an errored job, submitted anew and wrote the new id
C3_Witness == StartedErrored /\ fetch_result = "error" /\ Did("write_token")

\* jobs this invocation submitted whose id is not in the token file
Unrecorded == { j \in JobIds : jobs[j].owner = run /\ files[token_path] # j }

\* C4: on the fresh path the order is prepare audio, submit, write the id,
\* wait; while the run waits on a job it submitted the token file holds
\* exactly that job's id, and up to the end of the wait and the status check
\* (wherever the run stands or was interrupted) at most one job it submitted
\* is missing from the token file, and only between the submit and the write.
C4_TokenWrittenBeforeWait ==
    /\ Count("submit") <= 1 /\ Count("write_token") <= 1
    /\ Did("submit") =>
          Did("extract_audio") /\ First("extract_audio") < First("submit")
    /\ Did("write_token") => Did("submit") /\ First("submit") < First("write_token")
    /\ Where = "t_wait" =>
          /\ Did("write_token")
          /\ jobs[transcript.id].owner = run
          /\ files[token_path] = transcript.id
    /\ Where \in {"t_extract", "t_submit", "t_save", "t_wait", "t_status"} =>
          /\ Cardinality(Unrecorded) <= 1
          /\ Unrecorded # {} => Where = "t_save"

\* a run interrupted while it waited on the job it had submitted
C4_Witness ==
    pc = "exited" /\ ended = [how |-> "interrupted", at |-> "t_wait"] /\ Did("submit")

\* the previous transcription attempt on this input was interrupted in a wait
PrevInterruptedWaiting ==
    prev_end.how = "interrupted" /\ prev_end.at \in {"t_wait", "t_poll"}

TranscribeReturned == ~args.skip_ai_chapters /\ metadata_file # NoPath

\* C6: whenever transcribe_and_generate_chapters returns successfully (job
\* completed, metadata written), neither the token file nor the audio artifact
\* of the input exists afterwards, on the fresh path and on resume alike.
C6_CleanAfterSuccess ==
    TranscribeReturned =>
        /\ transcript.status = "completed"
        /\ metadata.exists /\ metadata.writer = run
        /\ ~exists(files[token_path])
        /\ ~exists(files[audio_path])

\* a resumed run that returned after removing the token and the artifact
C6_Witness ==
    /\ TranscribeReturned
    /\ resume_id \in JobIds /\ ~Did("submit")
    /\ Did("rm_token") /\ Did("rm_audio")

\* the failures of transcribe_and_generate_chapters the claim lists
ListedFailures == {"extract_failed", "job_error", "not_completed"}

\* a token file, an audio artifact existed at some point of this invocation
TokenExisted == resume_id # 0 \/ Did("write_token")

AudioExisted == Did("extract_audio")

\* C7 (as stated): on every run that ends by a failure (audio extraction, job
\* error, status not completed) or by an interruption, a token file that
\* existed is not deleted and the audio artifact is not deleted.
C7_NothingDeletedUnlessSuccess ==
    (pc = "exited" /\ ended.how \in ListedFailures \cup {"interrupted"}) =>
        /\ ~Did("rm_token") /\ ~Did("rm_audio")
        /\ TokenExisted => exists(files[token_path])
        /\ AudioExisted => exists(files[audio_path])

\* C7 (amended): the token file and the audio artifact are deleted only after
\* the job completed and its metadata was written; on every run that ends by
\* one of those failures, or by an interruption that comes before the metadata
\* is written, a token file that existed and the artifact are still there.
C7_DeletedOnlyAfterMetadata ==
    /\ (Did("rm_token") \/ Did("rm_audio")) =>
          /\ Did("write_metadata")
          /\ transcript.status = "completed"
          /\ jobs[transcript.id].status = "completed"
    /\ (/\ pc = "exited"
        /\ ended.how \in ListedFailures \cup {"interrupted"}
        /\ ~Did("write_metadata")) =>
          /\ ~Did("rm_token") /\ ~Did("rm_audio")
          /\ TokenExisted => exists(files[token_path])
          /\ AudioExisted => exists(files[audio_path])

\* a run that found a token, failed to extract the audio and left the token
C7_Witness ==
    pc = "exited" /\ ended.how = "extract_failed" /\ TokenExisted

\* C8: when a token file exists but fetching the job status fails, the run
\* does not end there: it drops the id, prepares the audio and makes a fresh
\* submission, and never reports on anything but the job it then submitted.
C8_FetchFailureRestarts ==
    fetch_result = "failed" =>
        /\ resume_id # 0
        /\ transcript_id = 0
        /\ Where \in {"t_extract"} \cup AfterSubmitPcs \cup {"t_submit"}
        /\ events[Len(events)] = "get_by_id" =>
              Where = "t_extract" /\ (pc = "exited" => ended.how = "interrupted")
        /\ FollowedBy("get_by_id", {"ffmpeg", "extract_audio"})
        /\ Where \in AfterSubmitPcs =>
              /\ Did("extract_audio")
              /\ Count("submit") = 1
              /\ jobs[transcript.id].owner = run

\* a run whose token held no job id and which went on to submit
C8_Witness == fetch_result = "failed" /\ resume_id = Garbage /\ Did("submit")

\* the previous attempt on this input ended after extract_audio had returned
\* and before any cleanup
PrevLeftArtifact ==
    prev_end.how # "success" /\ prev_end.at \in {"t_submit", "t_save", "t_wait"}

\* C9: extract_audio returns the same artifact path on every call for an
\* input; a call that finds the artifact does not run ffmpeg and leaves every
\* file as it is, so the call after one that returned never extracts again
\* and returns the path of the artifact an earlier run left.
C9_ExtractAudioIdempotent ==
    [][ /\ (pc = "t_extract" /\ exists(files[audio_path])) =>
              /\ files' = files
              /\ Count("ffmpeg")' = Count("ffmpeg")
              /\ pc' = "t_submit" => audio_file' = audio_path
        /\ (PrevLeftArtifact /\ Where \in TranscribePcs)' =>
              /\ ~Did("ffmpeg")'
              /\ Did("extract_audio")' =>
                    /\ audio_file' = audio_path'
                    /\ exists(files'[audio_file'])
                    /\ files'[audio_file'] \notin {run', -run'}
      ]_vars

\* a second call of extract_audio, made after an earlier run's call returned
C9_Witness == PrevLeftArtifact /\ Did("extract_audio") /\ pc = "t_submit"

\* source-metadata mode, and neither yt-dlp nor ffprobe gave chapters
NoChaptersFound ==
    args.skip_ai_chapters /\ Did("ffprobe") /\ no_chapters(chapters)

\* C10: in source-metadata mode, when neither the source query nor the
\* container gives chapters, the warning is printed, no metadata file is
\* written, the muxer is not invoked, and the run ends with exit code 0 and
\* the input path as its output path.
C10_NoChaptersPassThrough ==
    (args.skip_ai_chapters /\ Did("ffprobe") /\ chapters = <<>>) =>
        /\ Did("warn_no_chapters")
        /\ ~Did("write_metadata") /\ metadata.writer # run
        /\ metadata_file = NoPath
        /\ ~Did("mux")
        /\ Where = "mux"
        /\ (pc = "exited" /\ ended.how # "interrupted") =>
              /\ exit_code = 0
              /\ output_video = video_file
              /\ video_file \in Videos

\* a run with a URL: both sources were asked, neither had chapters, exit 0
C10_Witness ==
    /\ NoChaptersFound /\ args.url /\ Did("yt_dlp_json")
    /\ pc = "exited" /\ exit_code = 0

\* ----------------------------------------------------------------- C11
\* the invocation ended with exit status 0
Succeeded == pc = "exited" /\ exit_code = 0

\* the media file main worked on is the one it was given or downloaded
OriginalMedia == IF args.url THEN video_file \in Videos ELSE video_file = args.input

\* C11: in every successful run in which chapters were obtained (a metadata
\* file was written), the muxer was invoked exactly once, after the metadata
\* file was written, and its inputs were the original media path and the path
\* of that metadata file, in this order.
C11_MuxedOnceAfterWrite ==
    (Succeeded /\ Did("write_metadata")) =>
        /\ Count("mux") = 1
        /\ Len(mux_calls) = 1
        /\ First("write_metadata") < First("mux")
        /\ mux_calls[1].written_by = run
        /\ metadata.exists /\ metadata.writer = run
        /\ OriginalMedia
        /\ mux_calls[1].inputs = << video_file, ffmetadata_path(OutputDir) >>

\* a successful source-mode run on three chapters
C11_Witness ==
    /\ Succeeded
    /\ args.skip_ai_chapters
    /\ Len(chapters) = 3
    /\ Did("write_metadata")
    /\ Did("mux")

\* ----------------------------------------------------------------- C12
\* the fatal sub-steps: downloader, audio extractor or muxer exiting non-zero,
\* a missing input file, a transcription job that did not complete
FatalEnds ==
    { "download_failed", "input_missing", "extract_failed", "job_error",
      "not_completed", "mux_failed" }

LastEvent == IF events = <<>> THEN "" ELSE events[Len(events)]

\* C12: a fatal sub-step ends the run with a non-zero exit status and nothing
\* of the pipeline runs after it: the failed step is the last thing the run
\* did, there is no submission after a failed audio extraction, no mux after
\* a failed download, a missing input or a failed transcription, and no
\* output after a failed mux.
C12_FatalStepEndsRun ==
    ended.how \in FatalEnds =>
        /\ pc = "exited"
        /\ exit_code > 0
        /\ output_video = NoPath
        /\ ended.how = "download_failed" => events = << "chdir", "makedirs", "download" >>
        /\ ended.how = "input_missing" => events = << "chdir", "makedirs" >>
        /\ ended.how = "extract_failed" =>
                LastEvent = "ffmpeg" /\ ~Did("submit") /\ ~Did("write_token")
        /\ ended.how \in {"job_error", "not_completed"} =>
                LastEvent \in {"write_token", "get_by_id"}
        /\ ended.how = "mux_failed" => LastEvent = "mux" /\ Count("mux") = 1
        /\ ended.how # "mux_failed" =>
                ~Did("mux") /\ mux_calls = <<>> /\ ~Did("write_metadata")

\* a run that found an unusable token and was ended by the audio extractor
C12_Witness ==
    /\ pc = "exited"
    /\ ended.how = "extract_failed"
    /\ fetch_result = "failed"
    /\ exit_code = 1

\* ----------------------------------------------------------------- C13
\* the invocation wrote FFMETADATA with chapters_to_ffmetadata, from `chapters`
SourceWrote == args.skip_ai_chapters /\ Did("write_metadata")

\* the lines of t that open a block
ChapterStarts(t) == { k \in 1..Len(t) : t[k] = TextLine("[CHAPTER]") }

\* the last line of the block opened at line k: the line before the next
\* block, or the last line of the file
BlockEnd(t, k) ==
    IF \E j \in ChapterStarts(t) : j > k
    THEN (CHOOSE j \in ChapterStarts(t) :
              j > k /\ \A i \in ChapterStarts(t) : i > k => j <= i) - 1
    ELSE Len(t)

\* the block opened at line k is the Rank-th of the file
Rank(t, k) == Cardinality({ j \in ChapterStarts(t) : j <= k })

\* C13: chapters_to_ffmetadata on N chapters writes exactly N [CHAPTER]
\* blocks, the i-th block being that of the i-th chapter (it carries its
\* title), and the last line of every block is a blank line.
C13_OneBlockPerChapterInOrder ==
    SourceWrote =>
        LET t == metadata.lines IN
        /\ Cardinality(ChapterStarts(t)) = Len(chapters)
        /\ \A k \in ChapterStarts(t) :
                /\ t[BlockEnd(t, k)] = TextLine("")
                /\ BlockEnd(t, k) > k
                /\ \E i \in k..BlockEnd(t, k) :
                        t[i] = StrLine("title=",
                                       IF chapters[Rank(t, k)].title = NoTitle
                                       THEN "Chapter"
                                       ELSE chapters[Rank(t, k)].title)

\* three chapters of the source platform were serialized
C13_Witness ==
    /\ SourceWrote
    /\ ~Did("ffprobe")
    /\ Len(chapters) = 3
    /\ Cardinality(ChapterStarts(metadata.lines)) = 3

\* ----------------------------------------------------------------- C14
\* the six lines written for the r-th chapter
WrittenBlock(r) == SubSeq(metadata.lines, 2 + 6 * (r - 1), 1 + 6 * r)

\* a time in seconds (held in microseconds) is a whole number of milliseconds
WholeMs(microseconds) == microseconds % 1000 = 0

\* C14 (as stated): for every chapter whose start and end times are whole
\* numbers of milliseconds, the block written has TIMEBASE=1/1000, START equal
\* to start_time x 1000 and END equal to end_time x 1000 as integers, and the
\* title verbatim, "Chapter" when the chapter has none.
C14_WholeMillisecondsScaled ==
    SourceWrote =>
        \A r \in 1..Len(chapters) :
            (WholeMs(chapters[r].start_time) /\ WholeMs(chapters[r].end_time)) =>
                /\ WrittenBlock(r)[2] = TextLine("TIMEBASE=1/1000")
                /\ WrittenBlock(r)[3] = IntLine("START=", chapters[r].start_time \div 1000)
                /\ WrittenBlock(r)[4] = IntLine("END=", chapters[r].end_time \div 1000)
                /\ WrittenBlock(r)[5] =
                       StrLine("title=", IF chapters[r].title = NoTitle
                                         THEN "Chapter" ELSE chapters[r].title)

\* ----------------------------------------------------------------- C15
\* the command line lacks the API key in AI mode, or both --url and --input
UsageError ==
    \/ ~args.skip_ai_chapters /\ ~args.api_key
    \/ ~args.url /\ args.input = NoPath

\* C15: a run whose command line lacks the credentials (AI mode) or both
\* --url and --input never gets past the two startup checks: it has done
\* nothing (no chdir, no makedirs, no download, extraction, submission or
\* file write), and unless interrupted it ends there with a non-zero exit.
C15_UsageErrorBeforeEffects ==
    (run > 0 /\ UsageError) =>
        /\ Where \in {"api_key", "require_source"}
        /\ events = <<>>
        /\ mux_calls = <<>>
        /\ video_file = NoPath
        /\ pc = "exited" => ended.how \in {"usage", "interrupted"}
        /\ (pc = "exited" /\ ended.how = "usage") => exit_code > 0

\* a source-mode run without --url and --input, ended by the second check,
\* after an earlier run left a token file with a job id
C15_Witness ==
    /\ pc = "exited"
    /\ ended = [how |-> "usage", at |-> "require_source"]
    /\ args.skip_ai_chapters
    /\ \E p \in WorkPaths : files[p] \in JobIds

\* ----------------------------------------------------------------- C16
PendingStatus == {"queued", "processing"}

\* pcs that follow the wait for a job found through the token file
AfterPollPcs == { "t_status", "t_write", "t_rm_token", "t_rm_audio", "mux" }

AfterSourceQueryPcs == { "s_ffprobe", "s_write", "mux" }

\* extract_chapters_from_source has returned to main
SourceReturned == args.skip_ai_chapters /\ Where = "mux"

\* C17: in extract_chapters_from_source the source platform is queried exactly
\* when a URL is given, and before the container; the container is consulted
\* exactly when the source query produced no chapters or no URL was given
\* (main always gives a local file); the function returns no metadata file,
\* with a warning and without ending the run, exactly when both produced none.
C17_SourceThenContainer ==
    (args.skip_ai_chapters /\ Where \in AfterSourceQueryPcs) =>
        /\ Did("yt_dlp_json") <=> args.url
        /\ Count("yt_dlp_json") <= 1 /\ Count("ffprobe") <= 1
        /\ (Did("yt_dlp_json") /\ Did("ffprobe")) => First("yt_dlp_json") < First("ffprobe")
        /\ Where = "s_ffprobe" => chapters = <<>> /\ ~Did("ffprobe")
        /\ (Where = "s_write" /\ ~Did("ffprobe")) => chapters # <<>> /\ args.url
        /\ (Where = "mux" /\ ~Did("ffprobe")) => chapters # <<>> /\ args.url
        /\ Where \in {"s_write", "mux"} =>
                /\ metadata_file = NoPath <=> ~Did("write_metadata")
                /\ Did("warn_no_chapters") <=> (Where = "mux" /\ ~Did("write_metadata"))
                /\ Did("warn_no_chapters") <=> (chapters = <<>> /\ Did("ffprobe"))
                /\ Where = "mux" => (metadata_file = NoPath <=> chapters = <<>>)
        /\ (SourceReturned /\ pc = "exited" /\ metadata_file = NoPath) =>
                ended.how \in {"done", "interrupted"}

\* the source platform had no chapters, the container had, and the function
\* returned the metadata file
C17_Witness ==
    /\ SourceReturned
    /\ args.url
    /\ events = << "chdir", "makedirs", "download", "yt_dlp_json", "ffprobe",
                   "write_metadata" >>
    /\ metadata_file = ffmetadata_path(OutputDir)

\* ----------------------------------------------------------------- C18
\* the last transcription attempt on this input was ended by its job's error
PrevEndedOnJobError == prev_end.how = "job_error"

\* C18: the error status of a job ends at most one invocation; the attempt
\* that follows an invocation ended by job J's error finds J in the token
\* file, drops it once it has looked at its status (fetched or not), is never
\* ended by J's error, and where it has got past the submission it holds a
\* job of its own, other than J.
C18_ErrorAbortsOnce ==
    /\ \A j \in JobIds : jobs[j].aborted <= 1
    /\ PrevEndedOnJobError =>
            /\ resume_id = prev_end.job
            /\ jobs[prev_end.job].status = "error"
            /\ fetch_result \in {"none", "error", "failed"}
            /\ fetch_result # "none" => transcript_id = 0
            /\ ~(EndedOnJobError /\ transcript.id = prev_end.job)
            /\ Where \in AfterSubmitPcs =>
                    /\ Did("submit")
                    /\ transcript.id # prev_end.job
                    /\ jobs[transcript.id].owner = run

\* the attempt after an abort on a job's error waits for a job of its own
C18_Witness ==
    /\ PrevEndedOnJobError
    /\ fetch_result = "error"
    /\ pc = "t_wait"
    /\ jobs[prev_end.job].aborted = 1
    /\ transcript.id # prev_end.job

\* ----------------------------------------------------------------- C19
\* the ways a run ends without reaching the muxer
EndsBeforeMux == (FatalEnds \ {"mux_failed"}) \cup {"usage"}

\* C19: every call of the muxer is given the FFMETADATA path, and the file
\* at that path was written by the same invocation, before the call; while
\* the file on disk is one an earlier run left, the muxer has not been
\* called; on the no-chapters path and on every fatal path before the mux
\* the muxer is not called at all.
C19_OnlyFreshMetadataMuxed ==
    /\ Len(mux_calls) = Count("mux")
    /\ \A i \in 1..Len(mux_calls) :
            /\ mux_calls[i].written_by = run
            /\ mux_calls[i].inputs[2] = ffmetadata_path(OutputDir)
    /\ Did("mux") => Did("write_metadata") /\ First("write_metadata") < First("mux")
    /\ (metadata.exists /\ metadata.writer # run) => mux_calls = <<>>
    /\ (Did("warn_no_chapters") \/ ended.how \in EndsBeforeMux) => mux_calls = <<>>

\* a second run found no chapters and passed its input through while the
\* FFMETADATA file of the first run was still in the output directory
C19_Witness ==
    /\ run = 2
    /\ metadata.exists /\ metadata.writer = 1
    /\ Did("warn_no_chapters")
    /\ Succeeded
    /\ output_video = video_file

====
